---- MODULE Spec2Model ----
(***************************************************************************)
(* A model of three parts of the search engine library:                    *)
(*   - core/executor.rs      Executor::map, inline and on a scoped pool    *)
(*   - datastruct/fstmap.rs  FstMapBuilder / FstMap / FstMapIter           *)
(*   - collector/tests.rs    the doc+score and the fast-field collectors   *)
(* Each part has specifications of its own (ExecSpec and FairExecSpec;     *)
(* FstSpec, SourceSpec and LayoutSpec; CollSpec); the variables of the     *)
(* other parts stay at their initial values.                               *)
(* The crates the code calls (scoped_pool, crossbeam channel, fst) are     *)
(* modelled by their documented behaviour at the places the code calls     *)
(* them; the automaton bytes of fst are modelled as a version, the         *)
(* (key, output) pairs in order, and the number of pairs.                  *)
(* FstSpec works on the bytes of files below 2^32 bytes; LayoutSpec works  *)
(* on the lengths of the file's sections at the full width of usize.       *)
(***************************************************************************)
EXTENDS Integers, Sequences, FiniteSets, TLC

\* ------------------------------------------------------------------ bounds

\* Longest argument list handed to map.
MaxItems == 2
\* Largest worker count of multi_thread(n); n ranges over 1..MaxThreads.
MaxThreads == 2
\* Arguments are the numbers 0..MaxArg.
MaxArg == 1

\* Most successful inserts into one builder.
MaxInserts == 2
\* Most streams opened over one dictionary.
MaxStreams == 2

Args == 0..MaxArg
Outcomes == {"ok", "err", "panic"}

\* ----------------------------------------------------------------- helpers

Range(s) == {s[i] : i \in DOMAIN s}

\* The multiset of the elements of a sequence: element -> number of places.
BagOfSeq(s) == [v \in Range(s) |-> Cardinality({i \in DOMAIN s : s[i] = v})]

\* All sequences over S of length at most n.
SeqsUpTo(S, n) == UNION {[1..k -> S] : k \in 0..n}

\* ---------------------------------------------------------------- executor

VARIABLES
    exec,       \* the Executor: [kind |-> "SingleThread" | "ThreadPool", threads]
    pc,         \* where the caller of map is
    items,      \* args, as a sequence
    fKind,      \* the behaviour of f on each argument value: ok, err or panic
    next,       \* the position of the args iterator (1-based)
    queue,      \* the pool's job queue: indices of items, FIFO
    running,    \* the items whose task a worker thread has popped and not finished
    stage,      \* stage[i]: where the task of items[i] is: "queued" (or not yet
                \* dispatched), "popped", "applied", "sent", "unwinding", "done"
    pending,    \* the scope's WaitGroup counter
    poisoned,   \* the scope's WaitGroup poison flag
    chan,       \* the unbounded channel: the fruits sent and not yet received
    acc,        \* the Vec being collected by collect::<Result<_>>()
    result,     \* what map returned to its caller
    calls,      \* calls[i]: how many times f was applied to items[i]
    callLog     \* the indices f was applied to, in the order of application

execVars == <<exec, pc, items, fKind, next, queue, running, stage, pending, poisoned,
              chan, acc, result, calls, callLog>>

\* The dictionary of datastruct/fstmap.rs.
VARIABLES
    bState,     \* the builder: "open", or "finished" (consumed by finish)
    fstLast,    \* the fst builder's last key: [some |-> BOOLEAN, key |-> bytes]
    fstEntries, \* the (key, output) pairs the fst builder has taken
    data,       \* FstMapBuilder.data: the value blob
    bReturn,    \* the last call on the builder and what it returned
    inserted,   \* history: the (key, value) pairs of the inserts that returned Ok
    file,       \* the bytes of the sink after finish
    reader,     \* what from_source gave: [kind, index, values]
    lastGet,    \* the last get: [called, key, res]
    streams     \* the FstMapIter instances: [pos, out, ended]

fstVars == <<bState, fstLast, fstEntries, data, bReturn, inserted, file, reader,
             lastGet, streams>>

\* The lengths of the dictionary's file sections, at the width of usize.
VARIABLES
    layPc,      \* "building", "finished" (finish returned), "opened" (from_source split)
    layInserts, \* the inserts made since the initial state
    layFst,     \* the length of the automaton bytes in the sink
    layData,    \* data.len(): the length of the value blob
    layFooter,  \* footer_size, as finish wrote it and from_source reads it back
    layLen,     \* source.len(): the length of the file
    laySplit    \* split_len of from_source

layVars == <<layPc, layInserts, layFst, layData, layFooter, layLen, laySplit>>

\* The collectors of collector/tests.rs, over one query.
VARIABLES
    cKind,      \* which Collector runs: "Test", "FastField" or "Bytes"
    child,      \* per segment: the SegmentCollector, [st, fruit]; after harvest, its Fruit
    collected,  \* history: per segment, the collect calls [doc, score] in call order
    merged      \* merge_fruits: [done, children (as handed over), fruit]

collVars == <<cKind, child, collected, merged>>

vars == <<execVars, fstVars, layVars, collVars>>

NoResult == [kind |-> "None", vals |-> <<>>, err |-> 0]
OkResult(v) == [kind |-> "Ok", vals |-> v, err |-> 0]
ErrResult(e) == [kind |-> "Err", vals |-> <<>>, err |-> e]

\* The success value of f on a: any function of a that is not the identity.
FVal(a) == 2 * a + 1
\* The error value of f on a.
FErr(a) == 100 + a

\* f(arg): Ok(value), Err(error), or a panic.
Apply(fk, a) ==
    IF fk[a] = "ok" THEN [kind |-> "Ok", val |-> FVal(a)]
    ELSE IF fk[a] = "err" THEN [kind |-> "Err", val |-> FErr(a)]
    ELSE [kind |-> "Panic", val |-> 0]

SingleThread == [kind |-> "SingleThread", threads |-> 0]
ThreadPool(n) == [kind |-> "ThreadPool", threads |-> n]

\* single_thread() and multi_thread(n), n >= 1.
Executors == {SingleThread} \cup {ThreadPool(n) : n \in 1..MaxThreads}

\* Mutant of Push: the new element is put in front.
PushFront(v, x) == <<x>> \o v

\* collect::<Result<Vec<_>>>() takes one more Ok: the vector grows at its end.
Push(v, x) == Append(v, x)

\* Mutant of Advance: the iterator skips an item.
AdvanceTwo(n) == n + 2

\* The args iterator moves to its next item.
Advance(n) == n + 1

ExecInit ==
    /\ exec \in Executors
    /\ pc = "idle"
    /\ items = <<>>
    /\ fKind = [a \in Args |-> "ok"]
    /\ next = 1
    /\ queue = <<>>
    /\ running = {}
    /\ pending = 0
    /\ poisoned = FALSE
    /\ chan = <<>>
    /\ acc = <<>>
    /\ result = NoResult
    /\ calls = <<>>
    /\ callLog = <<>>
    /\ stage = <<>>

\* The caller enters map(f, args): match self.
Map(f, args) ==
    /\ pc = "idle"
    /\ items' = args
    /\ fKind' = f
    /\ calls' = [i \in DOMAIN args |-> 0]
    /\ stage' = [i \in DOMAIN args |-> "queued"]
    /\ pc' = IF exec.kind = "SingleThread" THEN "inline" ELSE "dispatch"
    /\ UNCHANGED <<exec, next, queue, running, pending, poisoned, chan, acc,
                   result, callLog,
                   fstVars, layVars, collVars>>

\* Mutant of StopsAt: an Err does not end the collection.
StopsNever(r) == FALSE

\* Result's FromIterator stops at the first Err and hands it back.
StopsAt(r) == r.kind = "Err"

\* Inline mode, one turn of args.map(f).collect(): f is applied to the next
\* item; an Ok is pushed, an Err ends the collection with that Err, a panic
\* unwinds through map into the caller.
InlineStep ==
    /\ pc = "inline"
    /\ next <= Len(items)
    /\ LET r == Apply(fKind, items[next]) IN
        /\ calls' = [calls EXCEPT ![next] = @ + 1]
        /\ callLog' = Append(callLog, next)
        /\ next' = Advance(next)
        /\ IF r.kind = "Panic"
           THEN /\ pc' = "panicked"
                /\ UNCHANGED <<acc, result>>
           ELSE IF StopsAt(r)
           THEN /\ pc' = "returned"
                /\ result' = ErrResult(r.val)
                /\ UNCHANGED acc
           ELSE /\ acc' = Push(acc, r.val)
                /\ UNCHANGED <<pc, result>>
    /\ UNCHANGED <<exec, stage, items, fKind, queue, running, pending, poisoned, chan,
                   fstVars, layVars, collVars>>

\* Inline mode, the iterator is exhausted: collect returns Ok(vec).
InlineReturn ==
    /\ pc = "inline"
    /\ next > Len(items)
    /\ result' = OkResult(acc)
    /\ pc' = "returned"
    /\ UNCHANGED <<exec, stage, items, fKind, next, queue, running, pending, poisoned,
                   chan, acc, calls, callLog,
                   fstVars, layVars, collVars>>

\* Pooled mode, one turn of `for arg in args`: scope.execute submits to the
\* scope's WaitGroup, then pushes the task on the pool's queue.
Dispatch ==
    /\ pc = "dispatch"
    /\ next <= Len(items)
    /\ pending' = pending + 1
    /\ queue' = Append(queue, next)
    /\ next' = Advance(next)
    /\ UNCHANGED <<exec, stage, pc, items, fKind, running, poisoned, chan, acc, result,
                   calls, callLog,
                   fstVars, layVars, collVars>>

\* The scheduler closure returns: pool.scoped joins the scope.
DispatchEnd ==
    /\ pc = "dispatch"
    /\ next > Len(items)
    /\ pc' = "join"
    /\ UNCHANGED <<exec, stage, items, fKind, next, queue, running, pending, poisoned,
                   chan, acc, result, calls, callLog,
                   fstVars, layVars, collVars>>

\* A free worker thread pops the next task of the queue.
WorkerPop ==
    /\ queue # <<>>
    /\ Cardinality(running) < exec.threads
    /\ running' = running \cup {Head(queue)}
    /\ stage' = [stage EXCEPT ![Head(queue)] = "popped"]
    /\ queue' = Tail(queue)
    /\ UNCHANGED <<exec, pc, items, fKind, next, pending, poisoned, chan, acc,
                   result, calls, callLog,
                   fstVars, layVars, collVars>>

\* The worker that holds the task of item i runs `let fruit = f(arg)`: f
\* returns a fruit, or it panics and the task starts to unwind.
WorkerRun(i) ==
    /\ i \in running
    /\ stage[i] = "popped"
    /\ calls' = [calls EXCEPT ![i] = @ + 1]
    /\ callLog' = Append(callLog, i)
    /\ stage' = [stage EXCEPT ![i] =
                    IF Apply(fKind, items[i]).kind = "Panic" THEN "unwinding" ELSE "applied"]
    /\ UNCHANGED <<exec, pc, items, fKind, next, queue, running, pending,
                   poisoned, chan, acc, result,
                   fstVars, layVars, collVars>>

\* The task of item i runs fruit_sender.send(fruit): the fruit is put at the
\* end of the channel (the receiver is alive, so the send succeeds).
WorkerSend(i) ==
    /\ i \in running
    /\ stage[i] = "applied"
    /\ chan' = Append(chan, Apply(fKind, items[i]))
    /\ stage' = [stage EXCEPT ![i] = "sent"]
    /\ UNCHANGED <<exec, pc, items, fKind, next, queue, running, pending,
                   poisoned, acc, result, calls, callLog,
                   fstVars, layVars, collVars>>

\* The closure of item i is over and the pool completes the scope's
\* WaitGroup for it; when the closure panicked, the task's sentinel, dropped
\* by the unwinding, poisons the WaitGroup (which also counts the task as
\* finished) and the pool replaces the thread.
WorkerDone(i) ==
    /\ i \in running
    /\ stage[i] \in {"sent", "unwinding"}
    /\ poisoned' = (poisoned \/ stage[i] = "unwinding")
    /\ pending' = pending - 1
    /\ running' = running \ {i}
    /\ stage' = [stage EXCEPT ![i] = "done"]
    /\ UNCHANGED <<exec, pc, items, fKind, next, queue, chan, acc, result,
                   calls, callLog,
                   fstVars, layVars, collVars>>

\* Mutant of JoinReady: join does not wait for the pending tasks.
JoinNoWait(p) == TRUE

\* WaitGroup::join waits while tasks are pending.
JoinReady(p) == p = 0

\* Mutant of JoinPanics: the poison flag is ignored.
JoinNeverPanics(poi) == FALSE

\* WaitGroup::join, once nothing is pending, panics if the group is poisoned.
JoinPanics(poi) == poi

\* pool.scoped's join: the caller waits for every task of the scope, then
\* either panics (a task panicked) or goes on to the receive loop.
Join ==
    /\ pc = "join"
    /\ JoinReady(pending)
    /\ pc' = IF JoinPanics(poisoned) THEN "panicked" ELSE "recv"
    /\ UNCHANGED <<exec, stage, items, fKind, next, queue, running, pending, poisoned,
                   chan, acc, result, calls, callLog,
                   fstVars, layVars, collVars>>

\* One turn of fruit_receiver.into_iter().collect::<Result<_>>(): the next
\* fruit is taken from the channel; an Ok is pushed, an Err ends the
\* collection. The iterator ends only when the channel is empty and every
\* sender is dropped; fruit_sender is a local of map that lives until map's
\* block ends, so on an empty channel the caller waits, and the model has no
\* step for it.
Recv ==
    /\ pc = "recv"
    /\ chan # <<>>
    /\ LET r == Head(chan) IN
        /\ chan' = Tail(chan)
        /\ IF StopsAt(r)
           THEN /\ pc' = "returned"
                /\ result' = ErrResult(r.val)
                /\ UNCHANGED acc
           ELSE /\ acc' = Push(acc, r.val)
                /\ UNCHANGED <<pc, result>>
    /\ UNCHANGED <<exec, stage, items, fKind, next, queue, running, pending, poisoned,
                   calls, callLog,
                   fstVars, layVars, collVars>>

CallerNext ==
    \/ /\ pc = "idle"
       /\ \E f \in [Args -> Outcomes], args \in SeqsUpTo(Args, MaxItems) : Map(f, args)
    \/ InlineStep
    \/ InlineReturn
    \/ Dispatch
    \/ DispatchEnd
    \/ Join
    \/ Recv

WorkerNext ==
    \/ WorkerPop
    \/ \E i \in running : WorkerRun(i)
    \/ \E i \in running : WorkerSend(i)
    \/ \E i \in running : WorkerDone(i)

ExecNext == CallerNext \/ WorkerNext

\* ------------------------------------------------------- executor: claims

Pooled == exec.kind = "ThreadPool"
Inline == exec.kind = "SingleThread"
Called == pc # "idle"

\* f returns a success value for every item of the list.
AllOk == \A i \in DOMAIN items : fKind[items[i]] = "ok"

\* items mapped through f, in input order.
Mapped == [i \in DOMAIN items |-> FVal(items[i])]

\* An application of f has panicked / has returned an error value.
AnyFaulted == \E i \in DOMAIN items : calls[i] > 0 /\ fKind[items[i]] = "panic"
AnyErr == \E i \in DOMAIN items : calls[i] > 0 /\ fKind[items[i]] = "err"

\* Neither the caller nor a worker can take a step.
Quiescent == ~ENABLED ExecNext

\* C1 (as claimed): a pooled map over a function that succeeds on every item
\* eventually returns to its caller, the threads being scheduled fairly.
C1_PooledMapReturns == (Pooled /\ Called /\ AllOk) ~> (pc = "returned")

\* C2 (as claimed): a pooled map over a function that succeeds on every item
\* ends with the caller holding Ok(collection), the collection being, as a
\* multiset, the items mapped through f.
C2_PooledMapReturnsMultiset ==
    (Pooled /\ Called /\ AllOk /\ Quiescent) =>
        /\ result.kind = "Ok"
        /\ BagOfSeq(result.vals) = BagOfSeq(Mapped)

\* C3: inline map applies f to the items one after the other in input order,
\* and for a function that succeeds on every item it returns Ok of the vector
\* whose i-th element is f(items[i]); it never panics then.
C3_InlineMapInOrder ==
    Inline =>
        /\ \A k \in DOMAIN callLog : callLog[k] = k
        /\ (AllOk /\ Called) =>
            /\ pc # "panicked"
            /\ Quiescent => pc = "returned"
            /\ pc = "returned" =>
                /\ result = OkResult(Mapped)
                /\ Len(result.vals) = Len(items)
                /\ Len(callLog) = Len(items)

C3_Witness ==
    /\ Inline
    /\ AllOk
    /\ pc = "returned"
    /\ Len(items) >= 2
    /\ items[1] # items[2]

\* C4: in both modes, once an application of f has panicked the caller never
\* receives a value from map (neither a collection nor an error value), and
\* the call ends by panicking in the caller; a collection that is returned
\* comes from a list no item of which makes f panic.
C4_PanicFailsMap ==
    /\ AnyFaulted => (result.kind = "None" /\ pc # "returned")
    /\ (AnyFaulted /\ Quiescent) => pc = "panicked"
    /\ result.kind = "Ok" => \A i \in DOMAIN items : fKind[items[i]] # "panic"

C4_Witness ==
    /\ Pooled
    /\ pc = "panicked"
    /\ chan # <<>>
    /\ Len(items) >= 2

\* C5: in both modes, when f has returned an error value for an item (and no
\* application panicked) map ends by returning one Err, which is the error of
\* one of the items, with no partial collection; map returns Ok only if f
\* succeeded on every item, and the collection has one element per item.
C5_ErrFailsMap ==
    /\ AnyErr => result.kind # "Ok"
    /\ (AnyErr /\ ~AnyFaulted /\ Quiescent) =>
        /\ pc = "returned"
        /\ result.kind = "Err"
        /\ result.vals = <<>>
        /\ \E i \in DOMAIN items :
            fKind[items[i]] = "err" /\ calls[i] = 1 /\ result.err = FErr(items[i])
    /\ result.kind = "Ok" =>
        /\ \A i \in DOMAIN items : fKind[items[i]] = "ok" /\ calls[i] = 1
        /\ Len(result.vals) = Len(items)

C5_Witness ==
    /\ Pooled
    /\ pc = "returned"
    /\ result.kind = "Err"
    /\ acc # <<>>

\* C6 (as claimed): in either mode, when the panic reaches the caller no item
\* of the batch is left un-run.
C6_NoItemUnrunAtPanic ==
    pc = "panicked" => \A i \in DOMAIN items : calls[i] = 1

\* C6 (amended): in pooled mode the panic reaches the caller only after every
\* task of the batch has run (to completion or to its own panic); in inline
\* mode it reaches the caller at once: the items up to the panicking one have
\* been run once, the items after it are never run.
C6_PanicAfterBatch ==
    pc = "panicked" =>
        /\ Pooled =>
            /\ \A i \in DOMAIN items : calls[i] = 1 /\ stage[i] = "done"
            /\ queue = <<>> /\ running = {} /\ pending = 0
        /\ Inline =>
            \E k \in DOMAIN items :
                /\ fKind[items[k]] = "panic"
                /\ \A i \in DOMAIN items : calls[i] = IF i <= k THEN 1 ELSE 0

\* A pooled call that panicked in the caller after a task had panicked and
\* another task ran after it.
C6_Witness ==
    /\ Pooled
    /\ pc = "panicked"
    /\ \E j \in DOMAIN callLog :
        j < Len(callLog) /\ fKind[items[callLog[j]]] = "panic"

\* C7 (as claimed): in both modes, when map returns f has been applied to
\* every item exactly once.
C7_EveryItemOnce ==
    pc = "returned" => \A i \in DOMAIN items : calls[i] = 1

\* C7 (amended): f is never applied twice to an item. In pooled mode, when
\* map returns f has been applied to every item exactly once, whatever the
\* outcomes. In inline mode, when map returns f has been applied exactly once
\* to each item up to and including the first one for which it returned an
\* error value, and to no item after it; to every item when there is none.
C7_ItemsRunBeforeReturn ==
    /\ \A i \in DOMAIN items : calls[i] <= 1
    /\ (pc = "returned" /\ Pooled) => \A i \in DOMAIN items : calls[i] = 1
    /\ (pc = "returned" /\ Inline /\ result.kind = "Ok") =>
        \A i \in DOMAIN items : calls[i] = 1
    /\ (pc = "returned" /\ Inline /\ result.kind = "Err") =>
        \E k \in DOMAIN items :
            /\ fKind[items[k]] = "err"
            /\ \A i \in 1..(k - 1) : fKind[items[i]] = "ok"
            /\ \A i \in DOMAIN items : calls[i] = IF i <= k THEN 1 ELSE 0

\* An inline call that returned without running its last item.
C7_Witness ==
    /\ Inline
    /\ pc = "returned"
    /\ Len(items) >= 2
    /\ calls[Len(items)] = 0

\* -------------------------------------------------------------- dictionary


\* Key bytes: "a" and "b". The keys are the byte strings of at most two of
\* them: the empty key, keys that are a prefix of one another, keys that
\* differ in their first or in their second byte.
KeyBytes == {97, 98}
Keys == SeqsUpTo(KeyBytes, 2)
\* Values of type u32; 346 needs two bytes.
Vals == {34, 346}

\* a < b in the lexicographic order of byte strings.
RECURSIVE LexLess(_, _)
LexLess(a, b) ==
    IF b = <<>> THEN FALSE
    ELSE IF a = <<>> THEN TRUE
    ELSE IF a[1] # b[1] THEN a[1] < b[1]
    ELSE LexLess(Tail(a), Tail(b))

\* The w low bytes of n, least significant first.
RECURSIVE LEBytes(_, _)
LEBytes(n, w) == IF w = 0 THEN <<>> ELSE <<n % 256>> \o LEBytes(n \div 256, w - 1)

\* The number whose little-endian bytes are b.
RECURSIVE FromLE(_)
FromLE(b) == IF b = <<>> THEN 0 ELSE b[1] + 256 * FromLE(Tail(b))

\* u32's BinarySerializable: four bytes.
SerializeU32(n) == LEBytes(n, 4)

\* u32::deserialize on a cursor over b: [ok, val]; fails on fewer than 4 bytes.
DeserializeU32(b) ==
    IF Len(b) < 4 THEN [ok |-> FALSE, val |-> 0]
    ELSE [ok |-> TRUE, val |-> FromLE(SubSeq(b, 1, 4))]

\* ReadOnlySource::slice(from, to): the bytes from..to (0-based, to excluded).
Slice(src, from, to) == SubSeq(src, from + 1, to)

\* Mutant of FstAccepts: a key equal to the last key is taken.
FstAcceptsEqual(last, key) == ~last.some \/ ~LexLess(key, last.key)

\* The fst builder's order check: a key must be greater than the last key;
\* an equal key is a DuplicateKey error, a smaller one an OutOfOrder error.
FstAccepts(last, key) == ~last.some \/ LexLess(last.key, key)

\* The version the automaton bytes start with.
FstVersion == 1

\* The bytes of one (key, output) pair in the automaton section.
FstEntryBytes(e) == <<Len(e.key)>> \o e.key \o LEBytes(e.out, 8)

RECURSIVE FstBody(_)
FstBody(es) == IF es = <<>> THEN <<>> ELSE FstEntryBytes(es[1]) \o FstBody(Tail(es))

\* The automaton section the fst builder has written when it is sealed:
\* a version, the pairs in insertion order, the number of pairs.
FstBytes(es) == LEBytes(FstVersion, 8) \o FstBody(es) \o LEBytes(Len(es), 8)

\* The pairs held by the body b of an automaton section: [ok, entries].
RECURSIVE FstParseBody(_)
FstParseBody(b) ==
    IF b = <<>> THEN [ok |-> TRUE, entries |-> <<>>]
    ELSE IF Len(b) < 1 + b[1] + 8 THEN [ok |-> FALSE, entries |-> <<>>]
    ELSE LET e == [key |-> SubSeq(b, 2, 1 + b[1]),
                   out |-> FromLE(SubSeq(b, 2 + b[1], 9 + b[1]))]
             rest == FstParseBody(SubSeq(b, 10 + b[1], Len(b)))
         IN [ok |-> rest.ok,
             entries |-> IF rest.ok THEN <<e>> \o rest.entries ELSE <<>>]

\* Fst::from_bytes: [ok, entries]; an error on bytes that are no automaton.
FstParse(b) ==
    IF Len(b) < 16 \/ FromLE(SubSeq(b, 1, 8)) # FstVersion
    THEN [ok |-> FALSE, entries |-> <<>>]
    ELSE LET body == FstParseBody(SubSeq(b, 9, Len(b) - 8)) IN
         IF body.ok /\ FromLE(SubSeq(b, Len(b) - 7, Len(b))) = Len(body.entries)
         THEN body
         ELSE [ok |-> FALSE, entries |-> <<>>]

\* fst::Map::get: [some, out].
FstGet(index, key) ==
    IF \E i \in DOMAIN index : index[i].key = key
    THEN [some |-> TRUE,
          out |-> index[CHOOSE i \in DOMAIN index : index[i].key = key].out]
    ELSE [some |-> FALSE, out |-> 0]

NoReader == [kind |-> "None", index |-> <<>>, values |-> <<>>]

\* The footer FstMapBuilder::finish writes: data.len() as u32, serialized.
Footer(d) == SerializeU32(Len(d))

\* The bytes in the sink after finish: automaton, value blob, footer.
FinishBytes(es, d) == FstBytes(es) \o d \o Footer(d)

\* Mutant of InsertOffset: the offset counts the values, not their bytes.
InsertOffsetIndex(d) == Len(d) \div 4

\* Mutant of InsertOffset: the offset is taken after the value is appended.
InsertOffsetAfter(d) == Len(d) + 4

\* The blob offset insert hands to the fst builder for the key.
InsertOffset(d) == Len(d)

\* FstMap::from_source. A source of fewer than 4 bytes is an error of the
\* seek; a footer larger than what precedes it makes the subtraction
\* underflow, which panics (checked arithmetic) or wraps to an offset beyond
\* the source, where slice panics.
FromSource(src) ==
    IF Len(src) < 4 THEN [kind |-> "Err", index |-> <<>>, values |-> <<>>]
    ELSE LET footer_size == DeserializeU32(Slice(src, Len(src) - 4, Len(src))).val
             split_len == Len(src) - 4 - footer_size
         IN IF split_len < 0 THEN [kind |-> "Panic", index |-> <<>>, values |-> <<>>]
            ELSE LET fst_index == FstParse(Slice(src, 0, split_len)) IN
                 IF ~fst_index.ok THEN [kind |-> "Err", index |-> <<>>, values |-> <<>>]
                 ELSE [kind |-> "Ok", index |-> fst_index.entries,
                       values |-> Slice(src, split_len, Len(src) - 4)]

\* FstMap::read_value: [kind, val]; the value decoded at the offset, or a
\* panic (the slice index, or the unwrap of a failed decoding).
ReadValue(values, offset) ==
    IF offset > Len(values) THEN [kind |-> "Panic", val |-> 0]
    ELSE LET v == DeserializeU32(Slice(values, offset, Len(values))) IN
         IF v.ok THEN [kind |-> "Some", val |-> v.val] ELSE [kind |-> "Panic", val |-> 0]

\* FstMap::get: [kind, val] with kind "Some", "None" or "Panic".
GetValue(r, key) ==
    LET o == FstGet(r.index, key) IN
    IF o.some THEN ReadValue(r.values, o.out) ELSE [kind |-> "None", val |-> 0]

\* No call on the builder yet / insert(key, _) returned res / finish returned.
NoCall == [op |-> "new", key |-> <<>>, res |-> "ok"]
InsertReturned(key, res) == [op |-> "insert", key |-> key, res |-> res]
FinishReturned == [op |-> "finish", key |-> <<>>, res |-> "ok"]

FstInit ==
    /\ bState = "open"
    /\ fstLast = [some |-> FALSE, key |-> <<>>]
    /\ fstEntries = <<>>
    /\ data = <<>>
    /\ bReturn = NoCall
    /\ inserted = <<>>
    /\ file = <<>>
    /\ reader = NoReader
    /\ lastGet = [called |-> FALSE, key |-> <<>>, res |-> [kind |-> "None", val |-> 0]]
    /\ streams = <<>>

\* Mutant of BlobAfterInsert: the value is appended before the fst builder
\* is asked, so also when the key is refused.
BlobAfterInsertAlways(d, value, accepted) == d \o SerializeU32(value)

\* The blob after insert: the value is serialized onto it only after the
\* fst builder has taken the key (try! returns before on a refusal).
BlobAfterInsert(d, value, accepted) ==
    IF accepted THEN d \o SerializeU32(value) ELSE d

\* FstMapBuilder::insert(key, value).
Insert(key, value) ==
    /\ bState = "open"
    /\ Len(inserted) < MaxInserts \/ ~FstAccepts(fstLast, key)
    /\ data' = BlobAfterInsert(data, value, FstAccepts(fstLast, key))
    /\ IF FstAccepts(fstLast, key)
       THEN /\ fstLast' = [some |-> TRUE, key |-> key]
            /\ fstEntries' = Append(fstEntries, [key |-> key, out |-> InsertOffset(data)])
            /\ bReturn' = InsertReturned(key, "ok")
            /\ inserted' = Append(inserted, <<key, value>>)
       ELSE /\ bReturn' = InsertReturned(key, "err")
            /\ UNCHANGED <<fstLast, fstEntries, inserted>>
    /\ UNCHANGED <<bState, file, reader, lastGet, streams,
                   execVars, layVars, collVars>>

\* FstMapBuilder::finish.
Finish ==
    /\ bState = "open"
    /\ bState' = "finished"
    /\ file' = FinishBytes(fstEntries, data)
    /\ bReturn' = FinishReturned
    /\ UNCHANGED <<fstLast, fstEntries, data, inserted, reader, lastGet,
                   streams,
                   execVars, layVars, collVars>>

\* FstMap::from_source on the bytes the builder wrote.
Open ==
    /\ bState = "finished"
    /\ reader.kind = "None"
    /\ reader' = FromSource(file)
    /\ UNCHANGED <<bState, fstLast, fstEntries, data, bReturn, inserted, file,
                   lastGet, streams,
                   execVars, layVars, collVars>>

\* FstMap::get(key).
Get(key) ==
    /\ reader.kind = "Ok"
    /\ lastGet' = [called |-> TRUE, key |-> key, res |-> GetValue(reader, key)]
    /\ UNCHANGED <<bState, fstLast, fstEntries, data, bReturn, inserted, file,
                   reader, streams,
                   execVars, layVars, collVars>>

\* FstMap::stream(): a new iterator at the start of the automaton.
Stream ==
    /\ reader.kind = "Ok"
    /\ Len(streams) < MaxStreams
    /\ streams' = Append(streams, [pos |-> 0, out |-> <<>>, ended |-> FALSE])
    /\ UNCHANGED <<bState, fstLast, fstEntries, data, bReturn, inserted, file,
                   reader, lastGet,
                   execVars, layVars, collVars>>

\* Mutant of IterNext: the iterator ends one pair early.
IterNextShort(r, st) ==
    IF st.pos + 1 < Len(r.index)
    THEN LET e == r.index[st.pos + 1] IN
         [pos |-> st.pos + 1,
          out |-> Append(st.out, <<e.key, [kind |-> "Some", val |-> 0]>>),
          ended |-> FALSE]
    ELSE [st EXCEPT !.ended = TRUE]

\* What FstMapIter::next does to the iterator st: the streamer's next pair,
\* with the value read at the pair's offset, or None at the end.
IterNext(r, st) ==
    IF st.pos < Len(r.index)
    THEN LET e == r.index[st.pos + 1] IN
         [pos |-> st.pos + 1,
          out |-> Append(st.out, <<e.key, ReadValue(r.values, e.out)>>),
          ended |-> FALSE]
    ELSE [st EXCEPT !.ended = TRUE]

\* Mutant of NextOn: the iterators share one cursor, so a next on one moves
\* the position of every other that has not reached the end.
NextOnShared(ss, s, r) ==
    [t \in DOMAIN ss |->
        IF t = s THEN IterNext(r, ss[t])
        ELSE IF ss[t].pos < Len(r.index) THEN [ss[t] EXCEPT !.pos = @ + 1]
        ELSE ss[t]]

\* The iterators after a next on iterator s: each FstMapIter owns its
\* streamer and only borrows the FstMap, so no other iterator changes.
NextOn(ss, s, r) == [ss EXCEPT ![s] = IterNext(r, ss[s])]

\* FstMapIter::next on stream s.
StreamNext(s) ==
    /\ s \in DOMAIN streams
    /\ streams' = NextOn(streams, s, reader)
    /\ UNCHANGED <<bState, fstLast, fstEntries, data, bReturn, inserted, file,
                   reader, lastGet,
                   execVars, layVars, collVars>>

FstNext ==
    \/ \E key \in Keys, value \in Vals : Insert(key, value)
    \/ Finish
    \/ Open
    \/ \E key \in Keys : Get(key)
    \/ Stream
    \/ \E s \in DOMAIN streams : StreamNext(s)

\* Bytes of a source that no builder wrote, and the longest such source.
SrcBytes == {0, 1, 2}
MaxSrcLen == 5

\* FstMap::from_source on a source of arbitrary bytes.
OpenSource(src) ==
    /\ bState = "open"
    /\ reader.kind = "None"
    /\ file' = src
    /\ reader' = FromSource(src)
    /\ UNCHANGED <<bState, fstLast, fstEntries, data, bReturn, inserted,
                   lastGet, streams,
                   execVars, layVars, collVars>>

SourceNext == \E src \in SeqsUpTo(SrcBytes, MaxSrcLen) : OpenSource(src)

\* ------------------------------------------- dictionary: lengths at full width

\* A usize or u64 is four limbs of 16 bits, least significant first.
LimbBase == 65536
Wide(n) == <<n % LimbBase, (n \div LimbBase) % LimbBase, 0, 0>>

\* a + b, wrapping at 2^64.
WideAdd(a, b) ==
    LET s1 == a[1] + b[1]
        s2 == a[2] + b[2] + s1 \div LimbBase
        s3 == a[3] + b[3] + s2 \div LimbBase
        s4 == a[4] + b[4] + s3 \div LimbBase
    IN <<s1 % LimbBase, s2 % LimbBase, s3 % LimbBase, s4 % LimbBase>>

\* a - b, wrapping at 2^64.
WideSub(a, b) ==
    LET d1 == a[1] - b[1]
        d2 == a[2] - b[2] - (IF d1 < 0 THEN 1 ELSE 0)
        d3 == a[3] - b[3] - (IF d2 < 0 THEN 1 ELSE 0)
        d4 == a[4] - b[4] - (IF d3 < 0 THEN 1 ELSE 0)
    IN <<d1 % LimbBase, d2 % LimbBase, d3 % LimbBase, d4 % LimbBase>>

\* `n as u32`, and the u32 read back `as usize`: the low 32 bits.
AsU32(n) == <<n[1], n[2], 0, 0>>

\* The blob lengths a builder is taken up at: an empty or small blob, and a
\* blob of u32 values just below 2^32 bytes.
LayBlobStarts == {Wide(0), Wide(4), <<65528, 65535, 0, 0>>, <<65532, 65535, 0, 0>>}

\* Most inserts made from there.
MaxLayInserts == 3

LayIdle ==
    /\ layPc = "building"
    /\ layInserts = 0
    /\ layFst = Wide(16)
    /\ layData = Wide(0)
    /\ layFooter = Wide(0)
    /\ layLen = Wide(0)
    /\ laySplit = Wide(0)

\* A builder holding a blob of one of the lengths of LayBlobStarts; the
\* automaton bytes are the 16 bytes around the pairs and, here, the pairs of
\* one-byte keys or of two-byte keys.
LayInit ==
    /\ layPc = "building"
    /\ layInserts = 0
    /\ layData \in LayBlobStarts
    /\ layFst \in {Wide(16), Wide(26), Wide(27)}
    /\ layFooter = Wide(0)
    /\ layLen = Wide(0)
    /\ laySplit = Wide(0)

\* FstMapBuilder::insert of a key of klen bytes with a u32 value, accepted:
\* the automaton grows by the pair, the blob by the four bytes of the value.
LayInsert(klen) ==
    /\ layPc = "building"
    /\ layInserts < MaxLayInserts
    /\ layInserts' = layInserts + 1
    /\ layFst' = WideAdd(layFst, Wide(1 + klen + 8))
    /\ layData' = WideAdd(layData, Wide(4))
    /\ UNCHANGED <<layPc, layFooter, layLen, laySplit, execVars, fstVars, collVars>>

\* FstMapBuilder::finish: footer_size = data.len() as u32; the sink holds the
\* automaton, the blob and the four bytes of the footer.
LayFinish ==
    /\ layPc = "building"
    /\ layPc' = "finished"
    /\ layFooter' = AsU32(layData)
    /\ layLen' = WideAdd(WideAdd(layFst, layData), Wide(4))
    /\ UNCHANGED <<layInserts, layFst, layData, laySplit, execVars, fstVars, collVars>>

\* FstMap::from_source: split_len = source.len() - 4 - footer_size.
LayOpen ==
    /\ layPc = "finished"
    /\ layPc' = "opened"
    /\ laySplit' = WideSub(WideSub(layLen, Wide(4)), layFooter)
    /\ UNCHANGED <<layInserts, layFst, layData, layFooter, layLen, execVars, fstVars, collVars>>

LayNext ==
    \/ \E klen \in 1..2 : LayInsert(klen)
    \/ LayFinish
    \/ LayOpen

\* -------------------------------------------------------------- collectors

\* The segments a query runs over: the ordinals 0..MaxSegs-1.
MaxSegs == 2
\* Most collect calls of one query, over all its segments.
MaxCollects == 3

Segs == 0..(MaxSegs - 1)
\* Local document ids and scores handed to collect.
DocIds == {0, 1}
Scores == {5, 7}
CollectorKinds == {"Test", "FastField", "Bytes"}

\* DocAddress(segment_ord, doc) and its segment_ord().
DocAddress(seg, doc) == <<seg, doc>>
SegmentOrd(addr) == addr[1]

\* FastFieldReader<u64>::get(doc) on the column of segment seg.
FastFieldGet(seg, doc) == 100 + 10 * seg + doc

\* BytesFastFieldReader::get_val(doc) on segment seg: the document's bytes,
\* of a length that varies with the document (some values are empty).
BytesGetVal(seg, doc) == [i \in 1..((seg + doc) % 3) |-> 16 * seg + 4 * doc + i]

\* A Fruit of any of the three collectors: TestFruit {docs, scores}, or the
\* Vec<u64> / Vec<u8> as vals.
EmptyFruit == [docs |-> <<>>, scores |-> <<>>, vals |-> <<>>]

NoChild == [st |-> "none", fruit |-> EmptyFruit]

\* Mutant of CollectPush: the segment ordinal of the collector is lost.
CollectDropsSegment(kind, fruit, seg, doc, score) ==
    IF kind = "Test"
    THEN [fruit EXCEPT !.docs = Append(@, DocAddress(0, doc)),
                       !.scores = Append(@, score)]
    ELSE IF kind = "FastField"
    THEN [fruit EXCEPT !.vals = Append(@, FastFieldGet(seg, doc))]
    ELSE [fruit EXCEPT !.vals = @ \o BytesGetVal(seg, doc)]

\* What collect(doc, score) does to the fruit of the segment collector of
\* segment seg, for each of the three collectors.
CollectPush(kind, fruit, seg, doc, score) ==
    IF kind = "Test"
    THEN [fruit EXCEPT !.docs = Append(@, DocAddress(seg, doc)),
                       !.scores = Append(@, score)]
    ELSE IF kind = "FastField"
    THEN [fruit EXCEPT !.vals = Append(@, FastFieldGet(seg, doc))]
    ELSE [fruit EXCEPT !.vals = @ \o BytesGetVal(seg, doc)]

\* The key merge_fruits sorts the children by.
FruitKey(fruit) == IF fruit.docs = <<>> THEN 0 ELSE SegmentOrd(fruit.docs[1])

\* x put into the sorted sequence s behind every element whose key is not
\* greater than its own.
InsertByKey(s, x) ==
    LET p == Cardinality({i \in DOMAIN s : FruitKey(s[i]) <= FruitKey(x)})
    IN SubSeq(s, 1, p) \o <<x>> \o SubSeq(s, p + 1, Len(s))

\* Mutant of SortByKey: the children are left in the order given.
SortByKeyNot(children) == children

\* children.sort_by_key(..): a stable sort.
RECURSIVE SortByKey(_)
SortByKey(children) ==
    IF children = <<>> THEN <<>>
    ELSE InsertByKey(SortByKey(SubSeq(children, 1, Len(children) - 1)),
                     children[Len(children)])

RECURSIVE ExtendDocs(_)
ExtendDocs(children) ==
    IF children = <<>> THEN <<>> ELSE children[1].docs \o ExtendDocs(Tail(children))

\* Mutant of ExtendScores: the scores are taken from the last child first.
RECURSIVE ExtendScoresBackwards(_)
ExtendScoresBackwards(children) ==
    IF children = <<>> THEN <<>>
    ELSE ExtendScoresBackwards(Tail(children)) \o children[1].scores

RECURSIVE ExtendScores(_)
ExtendScores(children) ==
    IF children = <<>> THEN <<>> ELSE children[1].scores \o ExtendScores(Tail(children))

\* Mutant of FlatMap: the last child is flattened first.
RECURSIVE FlatMapBackwards(_)
FlatMapBackwards(children) ==
    IF children = <<>> THEN <<>>
    ELSE FlatMapBackwards(Tail(children)) \o children[1].vals

\* children.into_iter().flat_map(|v| v.into_iter()).collect()
RECURSIVE FlatMap(_)
FlatMap(children) ==
    IF children = <<>> THEN <<>> ELSE children[1].vals \o FlatMap(Tail(children))

\* Collector::merge_fruits of each of the three collectors.
MergeFruits(kind, children) ==
    IF kind = "Test"
    THEN LET sorted == SortByKey(children) IN
         [docs |-> ExtendDocs(sorted), scores |-> ExtendScores(sorted), vals |-> <<>>]
    ELSE [docs |-> <<>>, scores |-> <<>>, vals |-> FlatMap(children)]

NoMerge == [done |-> FALSE, children |-> <<>>, fruit |-> EmptyFruit]

\* The state before a query of the doc+score collector.
CollIdle ==
    /\ cKind = "Test"
    /\ child = [seg \in Segs |-> NoChild]
    /\ collected = [seg \in Segs |-> <<>>]
    /\ merged = NoMerge

\* The state before a query of any of the three collectors.
CollInit ==
    /\ cKind \in CollectorKinds
    /\ child = [seg \in Segs |-> NoChild]
    /\ collected = [seg \in Segs |-> <<>>]
    /\ merged = NoMerge

\* The number of collect calls made so far on the segments 0..seg.
RECURSIVE CollectsUpTo(_)
CollectsUpTo(seg) ==
    IF seg < 0 THEN 0 ELSE Len(collected[seg]) + CollectsUpTo(seg - 1)

\* Collector::for_segment(seg, reader). TestCollector always returns a child;
\* the fast-field collectors fail when the reader has no column of the field.
ForSegment(seg, hasColumn) ==
    /\ ~merged.done
    /\ child[seg].st = "none"
    /\ cKind = "Test" => hasColumn
    /\ child' = [child EXCEPT ![seg] =
                    [st |-> IF hasColumn THEN "open" ELSE "failed", fruit |-> EmptyFruit]]
    /\ UNCHANGED <<cKind, collected, merged, execVars, fstVars, layVars>>

\* CollectDocScore::collect(doc, score) on the child of segment seg.
Collect(seg, doc, score) ==
    /\ ~merged.done
    /\ child[seg].st = "open"
    /\ CollectsUpTo(MaxSegs - 1) < MaxCollects
    /\ child' = [child EXCEPT ![seg].fruit = CollectPush(cKind, @, seg, doc, score)]
    /\ collected' = [collected EXCEPT ![seg] = Append(@, [doc |-> doc, score |-> score])]
    /\ UNCHANGED <<cKind, merged, execVars, fstVars, layVars>>

\* SegmentCollector::harvest on the child of segment seg.
Harvest(seg) ==
    /\ ~merged.done
    /\ child[seg].st = "open"
    /\ child' = [child EXCEPT ![seg].st = "harvested"]
    /\ UNCHANGED <<cKind, collected, merged, execVars, fstVars, layVars>>

Harvested == {seg \in Segs : child[seg].st = "harvested"}

\* The sequences of segments, among them every order of handing fruits over.
HandOvers == SeqsUpTo(Segs, MaxSegs)

\* order hands over the fruit of each segment of S once.
IsOrderOf(order, S) == Len(order) = Cardinality(S) /\ Range(order) = S

\* Collector::merge_fruits on the harvested fruits, handed over in the order
\* order; there is a merge only if no for_segment failed.
Merge(order) ==
    /\ ~merged.done
    /\ \A seg \in Segs : child[seg].st \in {"none", "harvested"}
    /\ IsOrderOf(order, Harvested)
    /\ LET children == [i \in DOMAIN order |-> child[order[i]].fruit] IN
       merged' = [done |-> TRUE, children |-> children,
                  fruit |-> MergeFruits(cKind, children)]
    /\ UNCHANGED <<cKind, child, collected, execVars, fstVars, layVars>>

CollNext ==
    \/ \E seg \in Segs, hasColumn \in BOOLEAN : ForSegment(seg, hasColumn)
    \/ \E seg \in Segs, doc \in DocIds, score \in Scores : Collect(seg, doc, score)
    \/ \E seg \in Segs : Harvest(seg)
    \/ \E order \in HandOvers : Merge(order)

\* ----------------------------------------------------- collectors: claims

\* The documents of segment seg among docs, in the order they have there.
DocsOfSegment(docs, seg) ==
    LET ofSeg(addr) == SegmentOrd(addr) = seg IN SelectSeq(docs, ofSeg)

\* C13: the doc+score merge of fruits of distinct segments (empty ones among
\* them), handed over in any order, lists the documents by non-decreasing
\* segment ordinal, each segment's documents in the order they were
\* collected; and it is the same fruit for every order of handing them over.
C13_MergeOrdering ==
    (merged.done /\ cKind = "Test") =>
        /\ \A i, j \in DOMAIN merged.fruit.docs :
               i < j => SegmentOrd(merged.fruit.docs[i]) <= SegmentOrd(merged.fruit.docs[j])
        /\ \A seg \in Segs :
               DocsOfSegment(merged.fruit.docs, seg) =
                   [i \in DOMAIN collected[seg] |-> DocAddress(seg, collected[seg][i].doc)]
        /\ \A order \in HandOvers :
               IsOrderOf(order, Harvested) =>
                   MergeFruits("Test", [i \in DOMAIN order |-> child[order[i]].fruit])
                       = merged.fruit

\* Two fruits were handed over with the higher segment first and came out
\* with the lower segment first, its two documents in collection order.
C13_Witness ==
    /\ merged.done
    /\ cKind = "Test"
    /\ Len(merged.children) = 2
    /\ merged.children[1].docs # <<>>
    /\ Len(merged.children[2].docs) = 2
    /\ FruitKey(merged.children[1]) > FruitKey(merged.children[2])
    /\ merged.fruit.docs = merged.children[2].docs \o merged.children[1].docs

\* The number of values in the children before the k-th.
RECURSIVE ValsBefore(_, _)
ValsBefore(children, k) ==
    IF k <= 1 THEN 0 ELSE ValsBefore(children, k - 1) + Len(children[k - 1].vals)

\* C14: the merge of the numeric and of the byte-blob fast-field collector
\* returns the children's values concatenated in the order the children were
\* handed over: nothing reordered, nothing dropped, nothing added, and a
\* child without values contributes nothing.
C14_FlattenMerge ==
    (merged.done /\ cKind # "Test") =>
        LET cs == merged.children
            out == merged.fruit.vals
        IN /\ Len(out) = ValsBefore(cs, Len(cs) + 1)
           /\ \A k \in DOMAIN cs : \A j \in DOMAIN cs[k].vals :
                  out[ValsBefore(cs, k) + j] = cs[k].vals[j]

\* Two children with values were handed over, the one with the greater
\* values first, and an empty child is possible next to them.
C14_Witness ==
    /\ merged.done
    /\ cKind # "Test"
    /\ Len(merged.children) = 2
    /\ merged.children[1].vals # <<>>
    /\ merged.children[2].vals # <<>>
    /\ merged.children[1].vals[1] > merged.children[2].vals[1]
    /\ Len(merged.fruit.vals) >= 3

\* The fruit the task of segment seg harvests: the segment's matches, with
\* their scores, in ascending document order (segment 0 has two matches,
\* segment 1 one, segment 2 none, and so on).
SegmentFruit(seg) ==
    [docs |-> [d \in 1..(2 - (seg % 3)) |-> DocAddress(seg, d - 1)],
     scores |-> [d \in 1..(2 - (seg % 3)) |-> 5 + 2 * seg + d],
     vals |-> <<>>]

\* The success value FVal(seg) of a task stands for the fruit of segment seg.
FruitOfVal(v) == SegmentFruit((v - 1) \div 2)
FruitsOfVals(vs) == [i \in DOMAIN vs |-> FruitOfVal(vs[i])]

\* The items are distinct segments.
DistinctSegments == \A i, j \in DOMAIN items : i # j => items[i] # items[j]

\* C15 (as claimed): the per-segment collection of the doc+score collector,
\* run through the pooled executor (the tasks completing in any order) and
\* merged, ends with the same documents and scores as the same collection
\* run through the inline executor and merged.
C15_PooledMergeEqualsInline ==
    (Pooled /\ Called /\ AllOk /\ DistinctSegments /\ Quiescent) =>
        /\ result.kind = "Ok"
        /\ MergeFruits("Test", FruitsOfVals(result.vals))
               = MergeFruits("Test", FruitsOfVals(Mapped))

\* The fruits the pooled caller has received, once it has all of them, merge
\* to what the inline order merges to, whatever the order of completion.
ReceivedMergeEqualsInline ==
    (Pooled /\ AllOk /\ DistinctSegments /\ pc = "recv" /\ Len(acc) = Len(items)) =>
        MergeFruits("Test", FruitsOfVals(acc)) = MergeFruits("Test", FruitsOfVals(Mapped))

\* The (document, score) pairs a fruit holds at equal positions.
PairsOf(fruit) == [i \in DOMAIN fruit.docs |-> <<fruit.docs[i], fruit.scores[i]>>]

\* The (document, score) pairs of the collect calls on the segments 0..seg.
RECURSIVE CollectedPairs(_)
CollectedPairs(seg) ==
    IF seg < 0 THEN <<>>
    ELSE CollectedPairs(seg - 1) \o
         [i \in DOMAIN collected[seg] |->
             <<DocAddress(seg, collected[seg][i].doc), collected[seg][i].score>>]

\* C17: the doc+score merge returns documents and scores of equal length,
\* the number of collect calls of the query; the document and the score at
\* each position were recorded together by one collect call, and every
\* collected pair is there exactly once.
C17_MergeKeepsPairs ==
    (merged.done /\ cKind = "Test") =>
        /\ \A k \in DOMAIN merged.children :
               Len(merged.children[k].docs) = Len(merged.children[k].scores)
        /\ Len(merged.fruit.docs) = CollectsUpTo(MaxSegs - 1)
        /\ Len(merged.fruit.scores) = CollectsUpTo(MaxSegs - 1)
        /\ BagOfSeq(PairsOf(merged.fruit)) = BagOfSeq(CollectedPairs(MaxSegs - 1))

\* Three pairs from two segments were merged, the children handed over with
\* the higher segment first, the scores not all equal.
C17_Witness ==
    /\ merged.done
    /\ cKind = "Test"
    /\ Len(merged.fruit.docs) = 3
    /\ Len(merged.children) = 2
    /\ merged.children[1].docs # <<>>
    /\ merged.children[2].docs # <<>>
    /\ SegmentOrd(merged.children[1].docs[1]) > SegmentOrd(merged.children[2].docs[1])
    /\ merged.fruit.scores[1] # merged.fruit.scores[3]

\* C18: the fruit harvested from the doc+score segment collector made by
\* for_segment(seg, _) holds, for each collect(doc, score) call and in call
\* order, DocAddress(seg, doc) and the score at the same position: every
\* address carries the ordinal seg, calls in ascending document order give
\* ascending local ids, and a collector harvested without any collect call
\* gives the empty fruit. for_segment itself never fails.
C18_SegmentFruit ==
    cKind = "Test" =>
        \A seg \in Segs :
            /\ child[seg].st # "failed"
            /\ child[seg].st = "harvested" =>
                LET fruit == child[seg].fruit
                    calls_ == collected[seg]
                IN /\ fruit.docs = [i \in DOMAIN calls_ |-> DocAddress(seg, calls_[i].doc)]
                   /\ fruit.scores = [i \in DOMAIN calls_ |-> calls_[i].score]
                   /\ \A i \in DOMAIN fruit.docs : SegmentOrd(fruit.docs[i]) = seg
                   /\ (\A i, j \in DOMAIN calls_ : i < j => calls_[i].doc < calls_[j].doc)
                        => \A i, j \in DOMAIN fruit.docs :
                               i < j => fruit.docs[i][2] < fruit.docs[j][2]
                   /\ calls_ = <<>> => fruit = EmptyFruit

\* Segment 1 was harvested after two collect calls in ascending document
\* order with different scores, and segment 0 without any call.
C18_Witness ==
    /\ cKind = "Test"
    /\ child[1].st = "harvested"
    /\ Len(collected[1]) = 2
    /\ collected[1][1].doc < collected[1][2].doc
    /\ collected[1][1].score # collected[1][2].score
    /\ child[0].st = "harvested"
    /\ collected[0] = <<>>

\* ----------------------------------------------------- dictionary: claims

Some(v) == [kind |-> "Some", val |-> v]
None == [kind |-> "None", val |-> 0]

InsertedKeys == {inserted[i][1] : i \in DOMAIN inserted}

\* a is a proper prefix of b.
ProperPrefix(a, b) == Len(a) < Len(b) /\ SubSeq(b, 1, Len(a)) = a

\* What get(k) is to return, by the history of the successful inserts.
Expected(k) ==
    IF k \in InsertedKeys
    THEN Some(inserted[CHOOSE i \in DOMAIN inserted : inserted[i][1] = k][2])
    ELSE None

\* C8: what the builder wrote reopens without error, and then get(k) returns
\* the value inserted for k for every inserted key k, and the empty result
\* (no error, no panic) for every other key, prefixes and extensions of
\* inserted keys included.
C8_GetRoundTrip ==
    /\ reader.kind \in {"None", "Ok"}
    /\ reader.kind = "Ok" => \A k \in Keys : GetValue(reader, k) = Expected(k)
    /\ lastGet.called => lastGet.res = Expected(lastGet.key)

\* get found the second key, whose value lies at offset 4 and of which the
\* first key is a proper prefix ("abc", "abcd").
C8_Witness ==
    /\ Len(inserted) >= 2
    /\ lastGet.called
    /\ lastGet.key = inserted[2][1]
    /\ ProperPrefix(inserted[1][1], inserted[2][1])
    /\ inserted[1][2] # inserted[2][2]
    /\ lastGet.res = Some(inserted[2][2])

\* C9: a stream has yielded, after its p-th next, the first p inserted pairs
\* in insertion order, which is strictly ascending key order; the next after
\* the last pair reports the end, and the end is reported only then, so a
\* stream run to its end has yielded every inserted pair exactly once.
C9_StreamYieldsAll ==
    \A s \in DOMAIN streams :
        LET st == streams[s] IN
        /\ st.pos <= Len(inserted)
        /\ st.out = [i \in 1..st.pos |-> <<inserted[i][1], Some(inserted[i][2])>>]
        /\ \A i, j \in DOMAIN st.out : i < j => LexLess(st.out[i][1], st.out[j][1])
        /\ st.ended => (st.pos = Len(inserted) /\ Len(st.out) = Len(inserted))
        /\ IterNext(reader, st).ended = (st.pos = Len(inserted))

C9_Witness ==
    \E s \in DOMAIN streams :
        /\ streams[s].ended
        /\ Len(streams[s].out) >= 2
        /\ streams[s].out[1][2] # streams[s].out[2][2]

\* The keys inserted before the last call on the builder.
EarlierKeys ==
    IF bReturn.op = "insert" /\ bReturn.res = "ok"
    THEN {inserted[i][1] : i \in 1..(Len(inserted) - 1)}
    ELSE InsertedKeys

\* C10: insert(key, _) returns an error exactly when some earlier inserted
\* key is not smaller than key (equal to it, or greater); it returns Ok, and
\* the pair is taken, when key is greater than every earlier inserted key.
C10_InsertOrder ==
    bReturn.op = "insert" =>
        /\ (bReturn.res = "err") = (\E k \in EarlierKeys : ~LexLess(k, bReturn.key))
        /\ (bReturn.res = "ok") = (\A k \in EarlierKeys : LexLess(k, bReturn.key))
        /\ bReturn.res = "ok" => inserted[Len(inserted)][1] = bReturn.key

\* A duplicate of the last key was refused after two inserts.
C10_Witness ==
    /\ bReturn.op = "insert"
    /\ bReturn.res = "err"
    /\ Len(inserted) >= 2
    /\ bReturn.key = inserted[Len(inserted)][1]

\* The footer of src is malformed: there are no four bytes to hold it, or it
\* declares a value blob longer than the bytes that precede it.
MalformedFooter(src) ==
    \/ Len(src) < 4
    \/ FromLE(SubSeq(src, Len(src) - 3, Len(src))) > Len(src) - 4

\* C11: from_source on a source whose footer is malformed (shorter than four
\* bytes, or a declared blob length larger than what precedes the footer)
\* returns an error value: it yields no reader and it does not crash.
C11_MalformedFooterIsError ==
    (reader.kind # "None" /\ MalformedFooter(file)) => reader.kind = "Err"

\* C12: after finish the footer is the length of the value blob and the sink
\* is the automaton, the blob and the footer, so the split that from_source
\* computes (length - 4 - footer) is the boundary between the automaton and
\* the blob; for every blob length the builder can accumulate.
C12_SplitOnBoundary ==
    /\ layPc # "building" =>
          /\ layFooter = layData
          /\ layLen = WideAdd(WideAdd(layFst, layData), Wide(4))
    /\ layPc = "opened" => laySplit = layFst

\* A stream of the reader r run on its own from the start for n nexts.
RECURSIVE SoloStream(_, _)
SoloStream(r, n) ==
    IF n = 0 THEN [pos |-> 0, out |-> <<>>, ended |-> FALSE]
    ELSE IterNext(r, SoloStream(r, n - 1))

\* C16: streams opened over the same dictionary and advanced in any
\* interleaving each yield what a stream run alone yields, up to the complete
\* ascending sequence; a next on one stream changes no other stream, nor the
\* reader; and a get made while streams are under way returns what it
\* returns on a reader without streams.
C16_IndependentStreams ==
    /\ [](\A s \in DOMAIN streams :
            /\ streams[s].out = SoloStream(reader, streams[s].pos).out
            /\ streams[s].ended =>
                   /\ Len(streams[s].out) = Len(inserted)
                   /\ \A i \in DOMAIN inserted : streams[s].out[i][1] = inserted[i][1])
    /\ [](lastGet.called => lastGet.res = GetValue(FromSource(file), lastGet.key))
    /\ [][\A s \in DOMAIN streams :
            streams'[s] # streams[s] =>
                /\ reader' = reader
                /\ lastGet' = lastGet
                /\ \A t \in DOMAIN streams : t # s => streams'[t] = streams[t]]_vars

\* Two streams at different places: one at its end after two pairs, one after
\* its first pair, and a get of the second key made meanwhile.
C16_Witness ==
    /\ Len(streams) = 2
    /\ Len(inserted) = 2
    /\ streams[1].pos = 1
    /\ ~streams[1].ended
    /\ streams[2].ended
    /\ Len(streams[2].out) = 2
    /\ lastGet.called
    /\ lastGet.res = Some(inserted[2][2])

\* The reader that finish and from_source would give from the builder as it
\* stands.
ReaderIfSealed == FromSource(FinishBytes(fstEntries, data))

\* C19: an insert that is refused changes nothing in the builder: the blob,
\* the (key, offset) pairs and the last key are as before the call; and the
\* keys taken, before or after refusals, are retrieved with their own values
\* once the builder is sealed and the file reopened.
C19_RejectedInsertNoEffect ==
    /\ [][bReturn'.res = "err" =>
            /\ data' = data
            /\ fstEntries' = fstEntries
            /\ fstLast' = fstLast
            /\ inserted' = inserted
            /\ bState' = bState]_vars
    /\ [](bReturn.res = "err" =>
            /\ ReaderIfSealed.kind = "Ok"
            /\ \A k \in Keys : GetValue(ReaderIfSealed, k) = Expected(k))
    /\ [](reader.kind = "Ok" =>
            \A i \in DOMAIN inserted :
                GetValue(reader, inserted[i][1]) = Some(inserted[i][2]))

\* A key smaller than the last key was refused by a builder that holds two
\* pairs, both of which the sealed file would still give back.
C19_Witness ==
    /\ bReturn.op = "insert"
    /\ bReturn.res = "err"
    /\ Len(inserted) = 2
    /\ LexLess(bReturn.key, inserted[2][1])
    /\ Len(data) = 8
    /\ GetValue(ReaderIfSealed, inserted[2][1]) = Some(inserted[2][2])
    /\ GetValue(ReaderIfSealed, bReturn.key) = Expected(bReturn.key)

\* The encoded width of a value.
WidthOf(value) == Len(SerializeU32(value))

\* C20: the offset recorded with a key is the length the blob had just before
\* the key's value was appended; the offsets do not decrease in key order;
\* every offset plus the width of its value stays within the final blob, so
\* that read_value on a dictionary the builder produced never reads past the
\* end of the blob.
C20_OffsetsWithinBlob ==
    /\ [][Len(fstEntries') = Len(fstEntries) + 1 =>
            /\ fstEntries'[Len(fstEntries')].out = Len(data)
            /\ inserted'[Len(inserted')][1] = fstEntries'[Len(fstEntries')].key
            /\ data' = data \o SerializeU32(inserted'[Len(inserted')][2])]_vars
    /\ [](\A i, j \in DOMAIN fstEntries :
            i < j => /\ LexLess(fstEntries[i].key, fstEntries[j].key)
                     /\ fstEntries[i].out <= fstEntries[j].out)
    /\ [](\A i \in DOMAIN fstEntries :
            fstEntries[i].out + WidthOf(inserted[i][2]) <= Len(data))
    /\ [](reader.kind = "Ok" =>
            /\ reader.values = data
            /\ reader.index = fstEntries
            /\ \A i \in DOMAIN reader.index :
                   /\ reader.index[i].out + WidthOf(inserted[i][2]) <= Len(reader.values)
                   /\ ReadValue(reader.values, reader.index[i].out).kind = "Some")

\* A reopened dictionary of two pairs: offsets 0 and 4 in a blob of 8 bytes,
\* and the value at the last offset read up to the very end of the blob.
C20_Witness ==
    /\ reader.kind = "Ok"
    /\ Len(reader.index) = 2
    /\ reader.index[1].out = 0
    /\ reader.index[2].out = 4
    /\ Len(reader.values) = 8
    /\ ReadValue(reader.values, 4) = Some(inserted[2][2])
    /\ \E s \in DOMAIN streams : streams[s].pos = 2

\* ---------------------------------------------------------- specifications

\* The executor: one call of map on an executor of either kind.
ExecSpecInit == ExecInit /\ FstInit /\ LayIdle /\ CollIdle
ExecSpec == ExecSpecInit /\ [][ExecNext]_vars

\* The threads are scheduled: a caller or worker step that stays possible is
\* eventually taken.
FairExecSpec == ExecSpec /\ WF_vars(CallerNext) /\ WF_vars(WorkerNext)

\* The dictionary: built, sealed, reopened, read.
FstSpecInit == ExecInit /\ exec = SingleThread /\ FstInit /\ LayIdle /\ CollIdle
FstSpec == FstSpecInit /\ [][FstNext]_vars

\* The reader alone: from_source on arbitrary bytes.
SourceSpecInit == ExecInit /\ exec = SingleThread /\ FstInit /\ LayIdle /\ CollIdle
SourceSpec == SourceSpecInit /\ [][SourceNext]_vars

\* The section lengths of the file, from a builder of any blob length.
LayoutSpecInit == ExecInit /\ exec = SingleThread /\ FstInit /\ LayInit /\ CollIdle
LayoutSpec == LayoutSpecInit /\ [][LayNext]_vars

\* One query of a collector: per-segment collection, harvest, merge.
CollSpecInit == ExecInit /\ exec = SingleThread /\ FstInit /\ LayIdle /\ CollInit
CollSpec == CollSpecInit /\ [][CollNext]_vars

====
